---- MODULE Spec2Model ----
(***************************************************************************)
(* Movie-Search-API: the rate limiter (app/middleware/rate_limit.py), the  *)
(* aggregating MovieService (app/services/movie_service.py) and the HTTP   *)
(* search endpoint (app/main.py).                                          *)
(*                                                                         *)
(* Text is a sequence of one-character strings, so that split, strip,      *)
(* lower, join and the f-string of the cache key are computed, not         *)
(* assumed.  An Optional[T] is a set with at most one element: {} is       *)
(* Python's None and {x} is the value x.                                   *)
(***************************************************************************)
EXTENDS Integers, Sequences, FiniteSets, TLC

VARIABLES settings, now, requests, cleanup_task, cache, computed_at, last, ops, history, input,
          serving, session, open_sessions, flight

vars == <<settings, now, requests, cleanup_task, cache, computed_at, last, ops, history, input,
          serving, session, open_sessions, flight>>

(***************************************************************************)
(* Bounds of the model.                                                    *)
(***************************************************************************)
MaxTime == 90
MaxCalls == 2
MaxRepeats == 3
MaxChecks == 4
MaxRequests == 2
MaxCandidates == 2
MaxSweepTime == 150
MaxSweepChecks == 3

TickSteps == {30}

(***************************************************************************)
(* Python text and Optional values.                                        *)
(***************************************************************************)
None == {}

Some(x) == {x}

Val(opt) == CHOOSE x \in opt : TRUE

\* bool(x) for an Optional[str] or Optional[List]: None, "" and [] are falsy
Truthy(opt) == opt /= {} /\ Val(opt) /= <<>>

LowerChar(c) ==
  CASE c = "A" -> "a"
    [] c = "G" -> "g"
    [] c = "M" -> "m"
    [] c = "B" -> "b"
    [] OTHER -> c

\* str.lower()
Lower(s) == [i \in DOMAIN s |-> LowerChar(s[i])]

\* needle in hay, for two str
IsSubstr(needle, hay) ==
  \E i \in 0..(Len(hay) - Len(needle)) : SubSeq(hay, i + 1, i + Len(needle)) = needle

RECURSIVE Join(_, _)
\* sep.join(list)
Join(list, sep) ==
  IF list = <<>> THEN <<>>
  ELSE IF Len(list) = 1 THEN list[1]
  ELSE list[1] \o sep \o Join(Tail(list), sep)

RECURSIVE Split(_, _)
\* s.split(sep): always at least one piece
Split(s, sep) ==
  IF \E i \in 1..(Len(s) - Len(sep) + 1) : SubSeq(s, i, i + Len(sep) - 1) = sep
  THEN LET i == CHOOSE j \in 1..(Len(s) - Len(sep) + 1) :
                  /\ SubSeq(s, j, j + Len(sep) - 1) = sep
                  /\ \A k \in 1..(j - 1) : SubSeq(s, k, k + Len(sep) - 1) /= sep
       IN <<SubSeq(s, 1, i - 1)>> \o Split(SubSeq(s, i + Len(sep), Len(s)), sep)
  ELSE <<s>>

RECURSIVE Strip(_)
\* s.strip()
Strip(s) ==
  IF s = <<>> THEN s
  ELSE IF Head(s) = " " THEN Strip(Tail(s))
  ELSE IF s[Len(s)] = " " THEN Strip(SubSeq(s, 1, Len(s) - 1))
  ELSE s

DigitChar(d) == <<"0", "1", "2", "3", "4", "5", "6", "7", "8", "9">>[d + 1]

RECURSIVE IntStr(_)
\* str(n) for an int
IntStr(n) ==
  IF n < 0 THEN <<"-">> \o IntStr(0 - n)
  ELSE IF n < 10 THEN <<DigitChar(n)>>
  ELSE IntStr(n \div 10) \o <<DigitChar(n % 10)>>

IsDigit(c) == c \in {"0", "1", "2", "3", "4", "5", "6", "7", "8", "9"}

DigitVal(c) == CHOOSE d \in 0..9 : DigitChar(d) = c

RECURSIVE ParseInt(_)
ParseInt(s) ==
  IF s = <<>> THEN 0 ELSE 10 * ParseInt(SubSeq(s, 1, Len(s) - 1)) + DigitVal(s[Len(s)])

\* the text f"{x}" puts for an Optional[str]
PyStr(opt) == IF opt = None THEN <<"N", "o", "n", "e">> ELSE Val(opt)

\* python's list[start:end] for start >= 0 or start < 0 <= end
Slice(list, start, end) ==
  LET n == Len(list)
      lo == IF start < 0 THEN (IF start + n < 0 THEN 0 ELSE start + n) ELSE (IF start > n THEN n ELSE start)
      hi == IF end < 0 THEN (IF end + n < 0 THEN 0 ELSE end + n) ELSE (IF end > n THEN n ELSE end)
  IN SubSeq(list, lo + 1, hi)

(***************************************************************************)
(* app/config.py: the settings the code reads.                             *)
(***************************************************************************)
ApiKeys == {<<>>, <<"k">>}

CacheTtls == {0, 60}

RateLimits == {1, 2}

DefaultCacheMaxSize == 1000

CacheMaxSizes == {1, DefaultCacheMaxSize}

Settings ==
  [OMDB_API_KEY : ApiKeys, TMDB_API_KEY : ApiKeys,
   CACHE_TTL : CacheTtls, CACHE_MAX_SIZE : CacheMaxSizes, RATE_LIMIT_PER_MINUTE : RateLimits]

\* validate_cache_ttl, validate_cache_max_size and validate_rate_limit
SettingsValid(s) ==
  s.CACHE_TTL >= 0 /\ s.CACHE_MAX_SIZE >= 1 /\ s.RATE_LIMIT_PER_MINUTE >= 1

(***************************************************************************)
(* app/models/movie.py                                                     *)
(***************************************************************************)
MediaTypes == {<<"m", "o", "v", "i", "e">>, <<"s", "e", "r", "i", "e", "s">>,
               <<"e", "p", "i", "s", "o", "d", "e">>}

FirstFilmYear == 1888

CurrentYear == 2026

MinLimit == 1

MaxLimit == 50

\* Movie.validate_year: int(v) must parse and lie in [1888, current_year + 1]
validate_year(v) ==
  /\ v /= <<>>
  /\ \A i \in DOMAIN v : IsDigit(v[i])
  /\ FirstFilmYear <= ParseInt(v)
  /\ ParseInt(v) <= CurrentYear + 1

\* Optional[HttpUrl]
PosterValid(p) == p = None \/ (Len(Val(p)) > 4 /\ SubSeq(Val(p), 1, 4) = <<"h", "t", "t", "p">>)

\* Movie(...) constructs without ValidationError
MovieValid(m) ==
  /\ validate_year(m.year)
  /\ m.type \in MediaTypes
  /\ PosterValid(m.poster)
  /\ m.actors /= <<>>
  /\ m.genre /= <<>>
  /\ m.source \in {"omdb", "tmdb"}

\* MovieResponse(...) constructs without ValidationError
MovieResponseValid(page, limit) == page >= 1 /\ MinLimit <= limit /\ limit <= MaxLimit

(***************************************************************************)
(* cachetools.TTLCache(maxsize=100, ttl=CACHE_TTL) as MovieService uses    *)
(* it: a list of entries, least recently used first.                       *)
(***************************************************************************)
CacheMaxSize == 100

CacheIndex(c, key) == CHOOSE i \in DOMAIN c : c[i].key = key

\* key in self.cache: present and not yet expired
CacheContains(c, key, t) == \E i \in DOMAIN c : c[i].key = key /\ t < c[i].expires

\* self.cache[key]
CacheValue(c, key) == c[CacheIndex(c, key)].value

RemoveAt(c, i) == SubSeq(c, 1, i - 1) \o SubSeq(c, i + 1, Len(c))

\* a read that extends the life of the entry it reads
CacheTouch_Sliding(c, key, t, ttl) ==
  Append(RemoveAt(c, CacheIndex(c, key)), [c[CacheIndex(c, key)] EXCEPT !.expires = t + ttl])

\* what a read at time t does to a cache of this ttl: the entry becomes the
\* most recently used, its expiry is not touched
CacheTouch(c, key, t, ttl) ==
  Append(RemoveAt(c, CacheIndex(c, key)), c[CacheIndex(c, key)])

RECURSIVE Expire(_, _)
\* TTLCache.expire(time): drop every entry with not (time < expires)
Expire(c, t) ==
  IF c = <<>> THEN <<>>
  ELSE IF t < Head(c).expires THEN <<Head(c)>> \o Expire(Tail(c), t)
  ELSE Expire(Tail(c), t)

RECURSIVE Without(_, _)
Without(c, key) ==
  IF c = <<>> THEN <<>>
  ELSE IF Head(c).key = key THEN Without(Tail(c), key)
  ELSE <<Head(c)>> \o Without(Tail(c), key)

\* self.cache[key] = value that skips empty responses
CacheSet_SkipEmpty(c, key, value, t, ttl) ==
  IF value.results = <<>> THEN Expire(c, t)
  ELSE Append(Without(Expire(c, t), key), [key |-> key, value |-> value, expires |-> t + ttl])

\* self.cache[key] = value at time t
CacheSet(c, key, value, t, ttl) ==
  LET live == Expire(c, t)
      rest == Without(live, key)
      room == IF Len(rest) >= CacheMaxSize
              THEN SubSeq(rest, Len(rest) - CacheMaxSize + 2, Len(rest))
              ELSE rest
  IN Append(room, [key |-> key, value |-> value, expires |-> t + ttl])

(***************************************************************************)
(* app/services/movie_service.py: the provider adapters.  What an          *)
(* upstream answers is an input: the list call fails ("error"), succeeds   *)
(* with items, or (OMDB) answers Response = "False"; each item's detail    *)
(* call fails or returns a detail record.                                  *)
(***************************************************************************)
\* a filter that forgets to lower the genre
OmdbFiltered_CaseSensitive(d, actors, genre) ==
  \/ /\ Truthy(actors)
     /\ ~ \E i \in DOMAIN Val(actors) : IsSubstr(Lower(Val(actors)[i]), Lower(d.Actors))
  \/ /\ Truthy(genre)
     /\ ~ IsSubstr(Val(genre), d.Genre)

\* the actor and genre filter of _search_omdb (lines 134-135): TRUE = skip
OmdbFiltered(d, actors, genre) ==
  \/ /\ Truthy(actors)
     /\ ~ \E i \in DOMAIN Val(actors) : IsSubstr(Lower(Val(actors)[i]), Lower(d.Actors))
  \/ /\ Truthy(genre)
     /\ ~ IsSubstr(Lower(Val(genre)), Lower(d.Genre))

OmdbMovie(d) ==
  [title |-> d.Title, year |-> d.Year, type |-> d.Type, poster |-> d.Poster,
   actors |-> Split(d.Actors, <<",", " ">>), genre |-> Split(d.Genre, <<",", " ">>),
   source |-> "omdb"]

\* a loop turn that does not notice a failed detail call
OmdbItem_NoRaise(item, actors, genre) ==
  IF OmdbFiltered(item.detail, actors, genre) THEN <<>>
  ELSE IF ~ MovieValid(OmdbMovie(item.detail)) THEN <<>>
  ELSE <<OmdbMovie(item.detail)>>

\* one turn of the loop over data["Search"]: the records it appends
OmdbItem(item, actors, genre) ==
  IF item.status = "error" THEN <<>>
  ELSE IF OmdbFiltered(item.detail, actors, genre) THEN <<>>
  ELSE IF ~ MovieValid(OmdbMovie(item.detail)) THEN <<>>
  ELSE <<OmdbMovie(item.detail)>>

RECURSIVE OmdbItems(_, _, _)
OmdbItems(items, actors, genre) ==
  IF items = <<>> THEN <<>>
  ELSE OmdbItem(Head(items), actors, genre) \o OmdbItems(Tail(items), actors, genre)

\* _search_omdb: the records returned, the network calls made and the page
\* parameter sent with the list call
search_omdb(up, title, actors, type, genre, page) ==
  IF up.status = "error" THEN [movies |-> <<>>, calls |-> 1, page |-> page]
  ELSE IF up.status = "false" THEN [movies |-> <<>>, calls |-> 1, page |-> page]
  ELSE [movies |-> OmdbItems(up.items, actors, genre),
        calls |-> 1 + Len(up.items), page |-> page]

\* cast = [actor["name"] for actor in credits.cast]; the filter of lines 204-205
TmdbFiltered(d, actors, genre) ==
  \/ /\ Truthy(actors)
     /\ ~ \E i \in DOMAIN Val(actors) : \E j \in DOMAIN d.cast :
            IsSubstr(Lower(Val(actors)[i]), Lower(d.cast[j]))
  \/ /\ Truthy(genre)
     /\ ~ \E j \in DOMAIN d.genres : Lower(d.genres[j]) = Lower(Val(genre))

\* the genre-only filter of _search_tmdb_by_actors (line 272)
TmdbGenreFiltered(d, genre) ==
  /\ Truthy(genre)
  /\ ~ \E j \in DOMAIN d.genres : Lower(d.genres[j]) = Lower(Val(genre))

TmdbMovie(d) ==
  [title |-> d.title, year |-> SubSeq(d.release_date, 1, IF Len(d.release_date) < 4 THEN Len(d.release_date) ELSE 4),
   type |-> <<"m", "o", "v", "i", "e">>,
   poster |-> IF Truthy(d.poster_path)
              THEN Some(<<"h", "t", "t", "p", "s", ":", "/", "/">> \o Val(d.poster_path))
              ELSE None,
   actors |-> SubSeq(d.cast, 1, IF Len(d.cast) < 5 THEN Len(d.cast) ELSE 5),
   genre |-> d.genres, source |-> "tmdb"]

TmdbItem(item, actors, genre) ==
  IF item.status = "error" THEN <<>>
  ELSE IF TmdbFiltered(item.detail, actors, genre) THEN <<>>
  ELSE IF ~ MovieValid(TmdbMovie(item.detail)) THEN <<>>
  ELSE <<TmdbMovie(item.detail)>>

RECURSIVE TmdbItems(_, _, _)
TmdbItems(items, actors, genre) ==
  IF items = <<>> THEN <<>>
  ELSE TmdbItem(Head(items), actors, genre) \o TmdbItems(Tail(items), actors, genre)

TmdbCreditItem(item, genre) ==
  IF item.status = "error" THEN <<>>
  ELSE IF TmdbGenreFiltered(item.detail, genre) THEN <<>>
  ELSE IF ~ MovieValid(TmdbMovie(item.detail)) THEN <<>>
  ELSE <<TmdbMovie(item.detail)>>

RECURSIVE TmdbCreditItems(_, _)
TmdbCreditItems(items, genre) ==
  IF items = <<>> THEN <<>>
  ELSE TmdbCreditItem(Head(items), genre) \o TmdbCreditItems(Tail(items), genre)

RECURSIVE ByActorsLoop(_, _, _, _, _)
\* the loop of _search_tmdb_by_actors from actor number i on, with the
\* records and the calls accumulated so far; people[i] is what the upstream
\* answers for the i-th actor; an exception in the person or the credits
\* call leaves the loop through the outer except, which returns []
ByActorsLoop(people, i, n, genre, acc) ==
  IF i > n THEN acc
  ELSE LET p == people[i] IN
    IF p.person = "error" THEN [movies |-> <<>>, calls |-> acc.calls + 1]
    ELSE IF p.person = "none"
    THEN ByActorsLoop(people, i + 1, n, genre, [movies |-> acc.movies, calls |-> acc.calls + 1])
    ELSE IF p.credits = "error" THEN [movies |-> <<>>, calls |-> acc.calls + 2]
    ELSE ByActorsLoop(people, i + 1, n, genre,
           [movies |-> acc.movies \o TmdbCreditItems(p.cast, genre),
            calls |-> acc.calls + 2 + Len(p.cast)])

\* _search_tmdb_by_actors
search_tmdb_by_actors(up, actors, type, genre, page) ==
  LET r == ByActorsLoop(up.people, 1, Len(actors), genre, [movies |-> <<>>, calls |-> 0])
  IN [movies |-> r.movies, calls |-> r.calls, page |-> 1]

\* _search_tmdb
search_tmdb(up, title, actors, type, genre, page) ==
  IF ~ Truthy(title) /\ Truthy(actors)
  THEN search_tmdb_by_actors(up, Val(actors), type, genre, page)
  ELSE IF up.status = "error" THEN [movies |-> <<>>, calls |-> 1, page |-> page]
  ELSE [movies |-> TmdbItems(up.items, actors, genre),
        calls |-> 1 + Len(up.items), page |-> page]

(***************************************************************************)
(* MovieService.search_movies                                              *)
(***************************************************************************)
\* a test for None instead of a test for truth
HasSearchParam_NotNone(q) ==
  q.title /= None \/ q.actors /= None \/ q.type /= None \/ q.genre /= None

\* any([title, actors, type, genre]) (line 32)
HasSearchParam(q) ==
  Truthy(q.title) \/ Truthy(q.actors) \/ Truthy(q.type) \/ Truthy(q.genre)

\* a key that leaves the page out
cache_key_NoPage(q) ==
  PyStr(q.title) \o <<":">>
    \o Join(IF Truthy(q.actors) THEN Val(q.actors) ELSE <<>>, <<",">>) \o <<":">>
    \o PyStr(q.type) \o <<":">> \o PyStr(q.genre) \o <<":">> \o IntStr(q.limit)

\* f"{title}:{','.join(actors or [])}:{type}:{genre}:{page}:{limit}" (line 38)
cache_key(q) ==
  PyStr(q.title) \o <<":">>
    \o Join(IF Truthy(q.actors) THEN Val(q.actors) ELSE <<>>, <<",">>) \o <<":">>
    \o PyStr(q.type) \o <<":">> \o PyStr(q.genre) \o <<":">>
    \o IntStr(q.page) \o <<":">> \o IntStr(q.limit)

NoCall == [movies |-> <<>>, calls |-> 0, page |-> 0]

\* a slice that counts pages from 0
Paginate_FromZero(results, page, limit) == Slice(results, page * limit, page * limit + limit)

\* results[start_idx:end_idx] (lines 78-80)
Paginate(results, page, limit) ==
  Slice(results, (page - 1) * limit, (page - 1) * limit + limit)

\* lines 57-87 on a cache miss: what the two adapters returned, merged
Aggregate(st, q, omdb_up, tmdb_up) ==
  LET Merge(o, t) ==
        [response |-> [results |-> Paginate(o.movies \o t.movies, q.page, q.limit),
                       total |-> Len(o.movies) + Len(t.movies),
                       page |-> q.page, limit |-> q.limit],
         calls |-> o.calls + t.calls,
         omdb |-> o.movies, tmdb |-> t.movies,
         omdb_page |-> o.page, tmdb_page |-> t.page]
  IN Merge(IF st.OMDB_API_KEY /= <<>>
           THEN search_omdb(omdb_up, q.title, q.actors, q.type, q.genre, q.page)
           ELSE NoCall,
           IF st.TMDB_API_KEY /= <<>>
           THEN search_tmdb(tmdb_up, q.title, q.actors, q.type, q.genre, q.page)
           ELSE NoCall)

\* a key check that lost its second "not"
NoProviderConfigured_MissingNot(st) == st.OMDB_API_KEY = <<>> /\ st.TMDB_API_KEY /= <<>>

\* not self.settings.OMDB_API_KEY and not self.settings.TMDB_API_KEY (line 49)
NoProviderConfigured(st) == st.OMDB_API_KEY = <<>> /\ st.TMDB_API_KEY = <<>>

\* get_session: a new ClientSession unless the service holds an open one
get_session(s) == IF s = "none" \/ s = "closed" THEN "open" ELSE s

\* one call of search_movies on a service whose cache is c, at time t:
\* what it raises or returns, the network calls it makes, the cache after,
\* whether it went as far as get_session (line 55), and the page parameter
\* of each provider's list call (0: no call)
search_movies(c, st, q, omdb_up, tmdb_up, t) ==
  LET Run(key, agg, none) ==
        IF ~ HasSearchParam(q) THEN none
        ELSE IF CacheContains(c, key, t)
        THEN [none EXCEPT !.raised = "", !.status = 200, !.result = Some(CacheValue(c, key)),
                          !.hit = TRUE, !.cache = CacheTouch(c, key, t, st.CACHE_TTL)]
        ELSE IF NoProviderConfigured(st)
        THEN [none EXCEPT !.status = 500]
        ELSE IF ~ MovieResponseValid(q.page, q.limit)
        THEN [none EXCEPT !.raised = "ValidationError", !.status = 0, !.calls = agg.calls,
                          !.omdb = agg.omdb, !.tmdb = agg.tmdb, !.session = TRUE,
                          !.omdb_page = agg.omdb_page, !.tmdb_page = agg.tmdb_page]
        ELSE [none EXCEPT !.raised = "", !.status = 200, !.result = Some(agg.response),
                          !.calls = agg.calls, !.stored = TRUE,
                          !.cache = CacheSet(c, key, agg.response, t, st.CACHE_TTL),
                          !.omdb = agg.omdb, !.tmdb = agg.tmdb, !.session = TRUE,
                          !.omdb_page = agg.omdb_page, !.tmdb_page = agg.tmdb_page]
  IN Run(cache_key(q), Aggregate(st, q, omdb_up, tmdb_up),
         [raised |-> "HTTPException", status |-> 400, result |-> None, calls |-> 0,
          hit |-> FALSE, stored |-> FALSE, cache |-> c, key |-> cache_key(q),
          omdb |-> <<>>, tmdb |-> <<>>, session |-> FALSE, omdb_page |-> 0, tmdb_page |-> 0])

(***************************************************************************)
(* The inputs: queries, and what the two upstreams answer.                 *)
(***************************************************************************)
Movie_ == <<"m", "o", "v", "i", "e">>

Pages == {0, 1, 2}

Limits == {1, 2, 51}

\* the queries of one aggregation
Queries ==
  [title : {None, Some(<<"m">>)}, actors : {None, Some(<< <<"a">> >>)}, type : {None},
   genre : {None, Some(<<"g">>)}, page : Pages, limit : Limits]

\* queries with every search field absent or empty
EmptyQueries ==
  [title : {None, Some(<<>>)}, actors : {None, Some(<<>>)}, type : {None, Some(<<>>)},
   genre : {None, Some(<<>>)}, page : {1}, limit : {1}]

\* the queries a long-lived service is called with again and again
RepeatedQueries ==
  [title : {Some(<<"m">>)}, actors : {None}, type : {None}, genre : {None},
   page : {1, 2}, limit : {1, 2}]

RECURSIVE SeqsUpTo(_, _)
SeqsUpTo(S, n) ==
  IF n = 0 THEN {<<>>}
  ELSE LET shorter == SeqsUpTo(S, n - 1)
       IN shorter \cup {Append(s, x) : s \in {t \in shorter : Len(t) = n - 1}, x \in S}

OmdbHit ==
  [Title |-> <<"M">>, Year |-> <<"1", "9", "9", "9">>, Type |-> Movie_, Poster |-> None,
   Actors |-> <<"A", ",", " ", "b">>, Genre |-> <<"G">>]

OmdbOther ==
  [Title |-> <<"n">>, Year |-> <<"2", "0", "0", "1">>, Type |-> Movie_,
   Poster |-> Some(<<"h", "t", "t", "p", ":", "/", "/", "x">>),
   Actors |-> <<"b">>, Genre |-> <<"x">>]

OmdbCandidates ==
  {[status |-> "ok", detail |-> OmdbHit], [status |-> "ok", detail |-> OmdbOther],
   [status |-> "error", detail |-> OmdbHit]}

OmdbDown == [status |-> "error", items |-> <<>>]

OmdbUpstreams ==
  {OmdbDown, [status |-> "false", items |-> <<>>]}
    \cup {[status |-> "ok", items |-> s] : s \in SeqsUpTo(OmdbCandidates, MaxCandidates)}

TmdbHit ==
  [title |-> <<"M">>, release_date |-> <<"1", "9", "9", "9", "-">>, poster_path |-> None,
   cast |-> << <<"A">> >>, genres |-> << <<"G">> >>]

TmdbOther ==
  [title |-> <<"n">>, release_date |-> <<"2", "0", "0", "1">>, poster_path |-> Some(<<"/">>),
   cast |-> << <<"b">> >>, genres |-> << <<"x">> >>]

TmdbCandidates ==
  {[status |-> "ok", detail |-> TmdbHit], [status |-> "ok", detail |-> TmdbOther],
   [status |-> "error", detail |-> TmdbHit]}

TmdbPeople ==
  {[person |-> "error", credits |-> "error", cast |-> <<>>],
   [person |-> "none", credits |-> "error", cast |-> <<>>],
   [person |-> "ok", credits |-> "error", cast |-> <<>>]}
    \cup {[person |-> "ok", credits |-> "ok", cast |-> s] :
            s \in SeqsUpTo(TmdbCandidates, MaxCandidates)}

TmdbDown == [status |-> "error", items |-> <<>>, people |-> <<>>]

\* what the upstream answers to the title search of _search_tmdb
TmdbTitleUpstreams ==
  {TmdbDown}
    \cup {[status |-> "ok", items |-> s, people |-> <<>>] :
            s \in SeqsUpTo(TmdbCandidates, MaxCandidates)}

\* what the upstream answers to the calls of _search_tmdb_by_actors for one actor
TmdbActorUpstreams ==
  {[status |-> "ok", items |-> <<>>, people |-> <<p>>] : p \in TmdbPeople}

\* a search by two actors and no title
TwoActorQueries ==
  [title : {None}, actors : {Some(<< <<"a">>, <<"b">> >>)}, type : {None},
   genre : {None, Some(<<"g">>)}, page : {1}, limit : {2, MaxLimit}]

\* what the upstream answers for the second of two actors
TmdbSecondPerson ==
  {p \in TmdbPeople : Len(p.cast) <= 1 /\ \A i \in DOMAIN p.cast : p.cast[i].detail = TmdbOther}

\* what the upstream answers to the calls of _search_tmdb_by_actors for two actors
TmdbTwoActorUpstreams ==
  {[status |-> "ok", items |-> <<>>, people |-> <<p1, p2>>] :
     p1 \in TmdbPeople, p2 \in TmdbSecondPerson}

\* the upstream answers the calls a query leads to
TmdbUpstreams(q) ==
  IF ~ Truthy(q.title) /\ Truthy(q.actors)
  THEN (IF Len(Val(q.actors)) = 2 THEN TmdbTwoActorUpstreams ELSE TmdbActorUpstreams)
  ELSE TmdbTitleUpstreams

\* the upstreams a long-lived service meets
OmdbFew ==
  {OmdbDown,
   [status |-> "ok", items |-> <<[status |-> "ok", detail |-> OmdbHit]>>],
   [status |-> "ok", items |-> <<[status |-> "ok", detail |-> OmdbHit],
                                 [status |-> "ok", detail |-> OmdbOther]>>]}

TmdbFew ==
  {TmdbDown,
   [status |-> "ok", items |-> <<[status |-> "ok", detail |-> TmdbHit]>>, people |-> <<>>]}

\* every network call to the provider fails: the list call, or (the list
\* call apart) every detail call
OmdbFails(up) ==
  \/ up.status = "error"
  \/ up.status = "ok" /\ up.items /= <<>> /\ \A i \in DOMAIN up.items : up.items[i].status = "error"

TmdbFails(up) ==
  \/ up.status = "error"
  \/ /\ up.people = <<>>
     /\ up.items /= <<>>
     /\ \A i \in DOMAIN up.items : up.items[i].status = "error"
  \/ up.people /= <<>> /\ up.people[1].person = "error"
  \/ /\ up.people /= <<>>
     /\ up.people[1].person = "ok"
     /\ up.people[1].credits = "error"

(***************************************************************************)
(* State.  last is the outcome of the latest operation (prior: when its    *)
(* cache key was last computed before it); computed_at[k] is the time of   *)
(* the latest aggregation stored under cache key k; history is             *)
(* the list of rate-limit checks made so far; input is the call a fresh    *)
(* service receives.  serving: the server has not been stopped; session:   *)
(* self.session of the latest MovieService ("none", "open", "closed");     *)
(* open_sessions: the ClientSessions opened and not closed; flight: the    *)
(* search_movies call suspended at a provider call, if any.                *)
(***************************************************************************)
NoQuery == [title |-> None, actors |-> None, type |-> None, genre |-> None,
            page |-> 0, limit |-> 0]

NoOp ==
  [op |-> "none", q |-> NoQuery, raised |-> "", status |-> 0, result |-> None,
   calls |-> 0, hit |-> FALSE, stored |-> FALSE, at |-> 0, key |-> <<>>,
   omdb |-> <<>>, tmdb |-> <<>>, omdb_fails |-> FALSE, tmdb_fails |-> FALSE,
   client |-> "", reached |-> {}, params |-> NoQuery, prior |-> None,
   omdb_page |-> 0, tmdb_page |-> 0]

\* no search_movies call is suspended at a provider call
NoFlight ==
  [q |-> NoQuery, omdb_up |-> OmdbDown, tmdb_up |-> TmdbDown, omdb |-> "idle", tmdb |-> "idle"]

NoInput == [q |-> NoQuery, omdb_up |-> OmdbDown, tmdb_up |-> TmdbDown]

InitCommon ==
  /\ now = 0
  /\ requests = [c \in {} |-> <<0, 0>>]
  /\ cleanup_task = None
  /\ cache = <<>>
  /\ computed_at = [k \in {} |-> 0]
  /\ last = NoOp
  /\ ops = 0
  /\ history = <<>>
  /\ serving = TRUE
  /\ session = "none"
  /\ open_sessions = 0
  /\ flight = NoFlight

\* time passes
Tick ==
  /\ \E d \in TickSteps : now + d <= MaxTime /\ now' = now + d
  /\ UNCHANGED <<settings, requests, cleanup_task, cache, computed_at, last, ops, history, input,
                 serving, session, open_sessions, flight>>

\* a caller awaits service.search_movies(...) on the one MovieService object
SearchMovies(q, omdb_up, tmdb_up) ==
  \E r \in {search_movies(cache, settings, q, omdb_up, tmdb_up, now)} :
  /\ cache' = r.cache
  /\ computed_at' = IF r.stored THEN (r.key :> now) @@ computed_at ELSE computed_at
  /\ last' = [NoOp EXCEPT !.op = "search", !.q = q, !.raised = r.raised, !.status = r.status,
                          !.result = r.result, !.calls = r.calls, !.hit = r.hit,
                          !.stored = r.stored, !.at = now, !.key = r.key,
                          !.omdb = r.omdb, !.tmdb = r.tmdb,
                          !.omdb_fails = OmdbFails(omdb_up), !.tmdb_fails = TmdbFails(tmdb_up),
                          !.prior = IF r.key \in DOMAIN computed_at
                                    THEN Some(computed_at[r.key]) ELSE None,
                          !.omdb_page = r.omdb_page, !.tmdb_page = r.tmdb_page,
                          !.reached = {"service"} \cup (IF r.calls > 0 THEN {"providers"} ELSE {})]
  /\ session' = IF r.session THEN get_session(session) ELSE session
  /\ open_sessions' = IF r.session /\ get_session(session) /= session
                      THEN open_sessions + 1 ELSE open_sessions
  /\ ops' = ops + 1
  /\ UNCHANGED <<settings, now, requests, cleanup_task, history, serving>>

(***************************************************************************)
(* SpecAggregate: one call of search_movies on a freshly constructed       *)
(* MovieService, for every query and every pair of upstream answers.       *)
(***************************************************************************)
InitAggregate ==
  /\ InitCommon
  /\ settings \in {s \in Settings : SettingsValid(s) /\ s.CACHE_TTL = 60
                                      /\ s.CACHE_MAX_SIZE = DefaultCacheMaxSize
                                      /\ s.RATE_LIMIT_PER_MINUTE = 1}
  /\ \/ \E q \in Queries \cup EmptyQueries :
          input \in [q : {q}, omdb_up : OmdbUpstreams, tmdb_up : TmdbUpstreams(q)]
     \/ \E q \in TwoActorQueries :
          input \in [q : {q}, omdb_up : OmdbFew, tmdb_up : TmdbUpstreams(q)]

FirstSearch ==
  /\ ops = 0
  /\ SearchMovies(input.q, input.omdb_up, input.tmdb_up)
  /\ UNCHANGED <<input, flight>>

NextAggregate == FirstSearch

SpecAggregate == InitAggregate /\ [][NextAggregate]_vars

(***************************************************************************)
(* SpecRecords: one title search on a fresh MovieService with both keys,   *)
(* where the upstreams also answer with details no Movie can be built      *)
(* from: OMDB's "N/A" for a missing poster and its year ranges for series, *)
(* TMDB films without a release date or without a cast.                    *)
(***************************************************************************)
OmdbNoPoster == [OmdbHit EXCEPT !.Poster = Some(<<"N", "/", "A">>)]

OmdbSeries ==
  [OmdbHit EXCEPT !.Year = <<"2", "0", "1", "1", "-", "2", "0", "1", "9">>,
                  !.Type = <<"s", "e", "r", "i", "e", "s">>,
                  !.Genre = <<"x", ",", " ", "G", "y">>]

OmdbRecordCandidates ==
  OmdbCandidates \cup {[status |-> "ok", detail |-> OmdbNoPoster],
                       [status |-> "ok", detail |-> OmdbSeries]}

TmdbUndated == [TmdbHit EXCEPT !.release_date = <<>>]

TmdbNoCast == [TmdbHit EXCEPT !.cast = <<>>]

TmdbRecordCandidates ==
  TmdbCandidates \cup {[status |-> "ok", detail |-> TmdbUndated],
                       [status |-> "ok", detail |-> TmdbNoCast]}

TitleQueries ==
  [title : {Some(<<"m">>)}, actors : {None, Some(<< <<"a">> >>)}, type : {None},
   genre : {None, Some(<<"g">>)}, page : {1}, limit : {MaxLimit}]

InitRecords ==
  /\ InitCommon
  /\ settings \in {s \in Settings : SettingsValid(s) /\ s.CACHE_TTL = 60
                                      /\ s.CACHE_MAX_SIZE = DefaultCacheMaxSize
                                      /\ s.RATE_LIMIT_PER_MINUTE = 1
                                      /\ s.OMDB_API_KEY /= <<>> /\ s.TMDB_API_KEY /= <<>>}
  /\ input \in [q : TitleQueries,
                 omdb_up : {[status |-> "ok", items |-> s] :
                              s \in SeqsUpTo(OmdbRecordCandidates, MaxCandidates)},
                 tmdb_up : {[status |-> "ok", items |-> s, people |-> <<>>] :
                              s \in SeqsUpTo(TmdbRecordCandidates, MaxCandidates)}]

SpecRecords == InitRecords /\ [][NextAggregate]_vars

(***************************************************************************)
(* SpecService: a long-lived MovieService called repeatedly while time     *)
(* passes.                                                                 *)
(***************************************************************************)
InitService ==
  /\ InitCommon
  /\ settings \in {s \in Settings : SettingsValid(s) /\ s.OMDB_API_KEY /= <<>>
                                      /\ s.TMDB_API_KEY /= <<>>
                                      /\ s.RATE_LIMIT_PER_MINUTE = 1}
  /\ input = NoInput

RepeatedSearch ==
  /\ ops < MaxCalls
  /\ \E q \in RepeatedQueries, omdb_up \in OmdbFew, tmdb_up \in TmdbFew :
       SearchMovies(q, omdb_up, tmdb_up)
  /\ UNCHANGED <<input, flight>>

EmptySearch ==
  /\ ops < MaxCalls
  /\ \E q \in EmptyQueries :
       SearchMovies(q, CHOOSE u \in OmdbFew : Len(u.items) = 2,
                    CHOOSE u \in TmdbFew : Len(u.items) = 1)
  /\ UNCHANGED <<input, flight>>

NextService == Tick \/ RepeatedSearch \/ EmptySearch

SpecService == InitService /\ [][NextService]_vars

(***************************************************************************)
(* SpecKeys: a long-lived MovieService is asked queries whose texts hold   *)
(* the words and separators that the cache key is built with.              *)
(***************************************************************************)
KeyQueries ==
  {[NoQuery EXCEPT !.page = 1, !.limit = 2, !.title = t, !.actors = a] :
     <<t, a>> \in {<<None, Some(<< <<"a">> >>)>>,
                   <<Some(<<"N", "o", "n", "e">>), Some(<< <<"a">> >>)>>,
                   <<Some(<<"m">>), Some(<< <<"a">>, <<"b">> >>)>>,
                   <<Some(<<"m">>), Some(<< <<"a", ",", "b">> >>)>>,
                   <<Some(<<"a", ":", "b">>), None>>,
                   <<Some(<<"a">>), Some(<< <<"b", ":">> >>)>>}}

KeyOmdbUpstream == CHOOSE u \in OmdbFew : Len(u.items) = 1

KeyTmdbUpstreams(q) ==
  IF ~ Truthy(q.title) /\ Truthy(q.actors)
  THEN {u \in TmdbActorUpstreams :
          u.people[1].person = "ok" /\ u.people[1].credits = "ok"
            /\ u.people[1].cast = <<[status |-> "ok", detail |-> TmdbHit]>>}
  ELSE TmdbFew

KeySearch ==
  /\ ops < MaxCalls
  /\ \E q \in KeyQueries : \E tmdb_up \in KeyTmdbUpstreams(q) :
       SearchMovies(q, KeyOmdbUpstream, tmdb_up)
  /\ UNCHANGED <<input, flight>>

NextKeys == Tick \/ KeySearch

SpecKeys == InitService /\ [][NextKeys]_vars

(***************************************************************************)
(* SpecExpiry: one query asked again and again of a long-lived service.    *)
(***************************************************************************)
SameQuery ==
  [title |-> Some(<<"m">>), actors |-> None, type |-> None, genre |-> None,
   page |-> 1, limit |-> 2]

SameSearch ==
  /\ ops < MaxRepeats
  /\ \E omdb_up \in OmdbFew, tmdb_up \in TmdbFew : SearchMovies(SameQuery, omdb_up, tmdb_up)
  /\ UNCHANGED <<input, flight>>

NextExpiry == Tick \/ SameSearch

SpecExpiry == InitService /\ [][NextExpiry]_vars

(***************************************************************************)
(* SpecCalls: search_movies step by step.  The coroutine is suspended      *)
(* where it awaits the network: in "await self._search_omdb(...)" (line    *)
(* 60) and in "await self._search_tmdb(...)" (line 70).  flight tells      *)
(* which adapter call has been started and has not returned yet.           *)
(***************************************************************************)
Suspended == flight.omdb = "in_flight" \/ flight.tmdb = "in_flight"

\* lines 32-60: up to the first adapter call that is awaited; a call that
\* raises or returns before line 55 is over in this step
BeginSearch(q, omdb_up, tmdb_up) ==
  /\ ~ Suspended
  /\ \E r \in {search_movies(cache, settings, q, omdb_up, tmdb_up, now)} :
       IF ~ r.session
       THEN SearchMovies(q, omdb_up, tmdb_up) /\ UNCHANGED flight
       ELSE /\ flight' = [q |-> q, omdb_up |-> omdb_up, tmdb_up |-> tmdb_up,
                          omdb |-> IF settings.OMDB_API_KEY /= <<>> THEN "in_flight" ELSE "idle",
                          tmdb |-> IF settings.OMDB_API_KEY /= <<>> THEN "idle" ELSE "in_flight"]
            /\ session' = get_session(session)
            /\ open_sessions' = IF get_session(session) /= session
                                THEN open_sessions + 1 ELSE open_sessions
            /\ UNCHANGED <<settings, now, requests, cleanup_task, cache, computed_at, last, ops,
                           history, serving>>
  /\ UNCHANGED input

\* lines 77-91 once the last adapter has returned
FinishSearch ==
  /\ SearchMovies(flight.q, flight.omdb_up, flight.tmdb_up)
  /\ flight' = NoFlight
  /\ UNCHANGED input

\* _search_omdb returns (lines 61-62); then line 68: the TMDB adapter is
\* called if its key is set
OmdbReturns ==
  /\ flight.omdb = "in_flight"
  /\ IF settings.TMDB_API_KEY /= <<>>
     THEN /\ flight' = [flight EXCEPT !.omdb = "done", !.tmdb = "in_flight"]
          /\ UNCHANGED <<settings, now, requests, cleanup_task, cache, computed_at, last, ops,
                         history, input, serving, session, open_sessions>>
     ELSE FinishSearch

\* _search_tmdb returns (lines 71-72)
TmdbReturns ==
  /\ flight.tmdb = "in_flight"
  /\ FinishSearch

InitCalls ==
  /\ InitCommon
  /\ settings \in {s \in Settings : SettingsValid(s) /\ s.CACHE_TTL = 60
                                      /\ s.CACHE_MAX_SIZE = DefaultCacheMaxSize
                                      /\ s.RATE_LIMIT_PER_MINUTE = 1}
  /\ input = NoInput

StartSearch ==
  /\ ops < MaxCalls
  /\ \E q \in RepeatedQueries, omdb_up \in OmdbFew, tmdb_up \in TmdbFew :
       BeginSearch(q, omdb_up, tmdb_up)

NextCalls == Tick \/ StartSearch \/ OmdbReturns \/ TmdbReturns

SpecCalls == InitCalls /\ [][NextCalls]_vars

(***************************************************************************)
(* app/middleware/rate_limit.py: RateLimiter                               *)
(***************************************************************************)
Clients == {"c1", "c2"}

WindowSeconds == 60

SweepSeconds == 60

\* a check that takes half a minute for the length of the window
check_rate_limit_HalfMinute(reqs, st, client_ip, current_time) ==
  IF client_ip \in DOMAIN reqs
  THEN IF current_time - reqs[client_ip][2] >= 30
       THEN [allowed |-> TRUE, requests |-> [reqs EXCEPT ![client_ip] = <<1, current_time>>]]
       ELSE IF reqs[client_ip][1] >= st.RATE_LIMIT_PER_MINUTE
       THEN [allowed |-> FALSE, requests |-> reqs]
       ELSE [allowed |-> TRUE,
             requests |-> [reqs EXCEPT ![client_ip] = <<reqs[client_ip][1] + 1, reqs[client_ip][2]>>]]
  ELSE [allowed |-> TRUE, requests |-> (client_ip :> <<1, current_time>>) @@ reqs]

\* a check that compares with > instead of >=
check_rate_limit_OffByOne(reqs, st, client_ip, current_time) ==
  IF client_ip \in DOMAIN reqs
  THEN IF current_time - reqs[client_ip][2] >= 60
       THEN [allowed |-> TRUE, requests |-> [reqs EXCEPT ![client_ip] = <<1, current_time>>]]
       ELSE IF reqs[client_ip][1] > st.RATE_LIMIT_PER_MINUTE
       THEN [allowed |-> FALSE, requests |-> reqs]
       ELSE [allowed |-> TRUE,
             requests |-> [reqs EXCEPT ![client_ip] = <<reqs[client_ip][1] + 1, reqs[client_ip][2]>>]]
  ELSE [allowed |-> TRUE, requests |-> (client_ip :> <<1, current_time>>) @@ reqs]

\* the body of check_rate_limit after start_cleanup (lines 45-59): whether
\* the request is admitted (no HTTPException 429) and the window map after
check_rate_limit(reqs, st, client_ip, current_time) ==
  IF client_ip \in DOMAIN reqs
  THEN LET count == reqs[client_ip][1]
           start_time == reqs[client_ip][2]
       IN IF current_time - start_time >= WindowSeconds
          THEN [allowed |-> TRUE, requests |-> [reqs EXCEPT ![client_ip] = <<1, current_time>>]]
          ELSE IF count >= st.RATE_LIMIT_PER_MINUTE
          THEN [allowed |-> FALSE, requests |-> reqs]
          ELSE [allowed |-> TRUE,
                requests |-> [reqs EXCEPT ![client_ip] = <<count + 1, start_time>>]]
  ELSE [allowed |-> TRUE, requests |-> (client_ip :> <<1, current_time>>) @@ reqs]

\* start_cleanup: create the sweep task unless there is one; its first
\* sweep is due at once
start_cleanup(task, t) == IF task = None THEN Some([due |-> t]) ELSE task

\* a sweep that takes half a minute for the length of the window
cleanup_HalfMinute(reqs, current_time) ==
  [ip \in {c \in DOMAIN reqs : current_time - reqs[c][2] < 30} |-> reqs[ip]]

\* a sweep whose test is the wrong way round: it keeps the old windows
cleanup_Inverted(reqs, current_time) ==
  [ip \in {c \in DOMAIN reqs : current_time - reqs[c][2] >= WindowSeconds} |-> reqs[ip]]

\* a sweep that keeps a window of exactly one minute
cleanup_KeepsBoundary(reqs, current_time) ==
  [ip \in {c \in DOMAIN reqs : current_time - reqs[c][2] <= WindowSeconds} |-> reqs[ip]]

\* one turn of the loop of cleanup(): keep the windows younger than a minute
cleanup(reqs, current_time) ==
  [ip \in {c \in DOMAIN reqs : current_time - reqs[c][2] < WindowSeconds} |-> reqs[ip]]

\* the sweep task wakes up, sweeps and goes to sleep for a minute
Cleanup ==
  /\ serving
  /\ cleanup_task /= None
  /\ now >= Val(cleanup_task).due
  /\ requests' = cleanup(requests, now)
  /\ cleanup_task' = Some([due |-> now + SweepSeconds])
  /\ UNCHANGED <<settings, now, cache, computed_at, last, ops, history, input,
                 serving, session, open_sessions, flight>>

\* rate_limiter.check_rate_limit(request) for a request of client_ip
CheckRateLimit(client_ip) ==
  \E r \in {check_rate_limit(requests, settings, client_ip, now)} :
  /\ requests' = r.requests
  /\ cleanup_task' = start_cleanup(cleanup_task, now)
  /\ history' = Append(history, [client |-> client_ip, at |-> now, allowed |-> r.allowed])
  /\ last' = [NoOp EXCEPT !.op = "check", !.client = client_ip, !.at = now,
                          !.status = IF r.allowed THEN 0 ELSE 429,
                          !.raised = IF r.allowed THEN "" ELSE "HTTPException",
                          !.reached = {"limiter"}]
  /\ ops' = ops + 1
  /\ UNCHANGED <<settings, now, cache, computed_at, input, serving, session, open_sessions, flight>>

(***************************************************************************)
(* SpecLimiter: checks from two clients, the sweep and the clock.          *)
(***************************************************************************)
InitLimiter ==
  /\ InitCommon
  /\ settings \in {s \in Settings : SettingsValid(s) /\ s.CACHE_TTL = 60
                                      /\ s.CACHE_MAX_SIZE = DefaultCacheMaxSize
                                      /\ s.OMDB_API_KEY /= <<>> /\ s.TMDB_API_KEY /= <<>>}
  /\ input = NoInput

NextLimiter ==
  \/ Tick
  \/ Cleanup
  \/ /\ Len(history) < MaxChecks
     /\ \E c \in Clients : CheckRateLimit(c)

SpecLimiter == InitLimiter /\ [][NextLimiter]_vars

(***************************************************************************)
(* SpecSweep: the limiter over a longer time, with the scheduling the      *)
(* event loop gives: the clock goes on, and the sweep task, once created,  *)
(* runs whenever its sleep is over.                                        *)
(***************************************************************************)
SweepTick ==
  /\ \E d \in TickSteps : now + d <= MaxSweepTime /\ now' = now + d
  /\ UNCHANGED <<settings, requests, cleanup_task, cache, computed_at, last, ops, history, input,
                 serving, session, open_sessions, flight>>

SweepCheck ==
  /\ Len(history) < MaxSweepChecks
  /\ \E c \in Clients : CheckRateLimit(c)

NextSweep == SweepTick \/ Cleanup \/ SweepCheck

SpecSweep ==
  InitLimiter /\ [][NextSweep]_vars /\ WF_vars(Cleanup) /\ WF_vars(SweepTick)

(***************************************************************************)
(* app/main.py: GET /api/v1/movies/search behind rate_limit_middleware.    *)
(***************************************************************************)
DefaultPage == 1

DefaultLimit == 10

\* [actor.strip() for actor in actors.split(",")] if actors else None (line 75)
actor_list(actors) ==
  IF Truthy(actors)
  THEN LET parts == Split(Val(actors), <<",">>)
       IN Some([i \in DOMAIN parts |-> Strip(parts[i])])
  ELSE None

\* Query(1, ge=1) and Query(10, ge=1, le=50): FastAPI answers 422 otherwise
QueryParamsValid(params) == params.page >= 1 /\ params.limit >= 1 /\ params.limit <= MaxLimit

\* the route handler search_movies with its Depends(MovieService): a new
\* MovieService, hence an empty cache, for every request; every exception
\* that is not a ValueError, HTTPException included, leaves as a 500
route_search_movies(st, params, omdb_up, tmdb_up, t) ==
  LET out == [status |-> 500, result |-> None, calls |-> 0, hit |-> FALSE, stored |-> FALSE,
              cache |-> <<>>, key |-> <<>>, q |-> NoQuery, constructed |-> TRUE,
              omdb |-> <<>>, tmdb |-> <<>>, reached |-> {"limiter", "route"},
              session |-> "none", omdb_page |-> 0, tmdb_page |-> 0]
      Respond(r, seen) ==
        IF r.raised = "ValidationError" THEN [seen EXCEPT !.status = 400]
        ELSE IF r.raised /= "" THEN seen
        ELSE [seen EXCEPT !.status = 200, !.result = r.result]
      Seen(q, r) ==
        Respond(r, [out EXCEPT !.q = q, !.key = r.key, !.calls = r.calls, !.hit = r.hit,
                               !.stored = r.stored, !.cache = r.cache,
                               !.omdb = r.omdb, !.tmdb = r.tmdb,
                               !.session = IF r.session THEN get_session("none") ELSE "none",
                               !.omdb_page = r.omdb_page, !.tmdb_page = r.tmdb_page,
                               !.reached = {"limiter", "route", "service"}
                                  \cup (IF r.calls > 0 THEN {"providers"} ELSE {})])
      Handle(q) == Seen(q, search_movies(<<>>, st, q, omdb_up, tmdb_up, t))
  IN IF ~ QueryParamsValid(params)
     THEN [out EXCEPT !.status = 422, !.constructed = FALSE, !.reached = {"limiter"}]
     ELSE IF Truthy(params.type) /\ Lower(Val(params.type)) \notin MediaTypes
     THEN out
     ELSE Handle([title |-> params.title, actors |-> actor_list(params.actors),
                  type |-> IF Truthy(params.type) THEN Some(Lower(Val(params.type))) ELSE None,
                  genre |-> params.genre, page |-> params.page, limit |-> params.limit])

\* a middleware that calls call_next before it looks at the check
rate_limit_middleware_Late(reqs, st, client_ip, params, omdb_up, tmdb_up, t) ==
  LET Dispatch(chk, inner) ==
        IF chk.allowed
        THEN [response |-> inner, requests |-> chk.requests, allowed |-> TRUE]
        ELSE [response |-> [inner EXCEPT !.status = 429, !.result = None],
              requests |-> chk.requests, allowed |-> FALSE]
  IN Dispatch(check_rate_limit(reqs, st, client_ip, t),
              route_search_movies(st, params, omdb_up, tmdb_up, t))

\* rate_limit_middleware: the check, then call_next, unless the check raised
rate_limit_middleware(reqs, st, client_ip, params, omdb_up, tmdb_up, t) ==
  LET Rejected ==
        [status |-> 429, result |-> None, calls |-> 0, hit |-> FALSE, stored |-> FALSE,
         cache |-> <<>>, key |-> <<>>, q |-> NoQuery, constructed |-> FALSE,
         omdb |-> <<>>, tmdb |-> <<>>, reached |-> {"limiter"},
         session |-> "none", omdb_page |-> 0, tmdb_page |-> 0]
      Dispatch(chk) ==
        IF chk.allowed
        THEN [response |-> route_search_movies(st, params, omdb_up, tmdb_up, t),
              requests |-> chk.requests, allowed |-> TRUE]
        ELSE [response |-> Rejected, requests |-> chk.requests, allowed |-> FALSE]
  IN Dispatch(check_rate_limit(reqs, st, client_ip, t))

HttpParams ==
  [title : {None, Some(<<"m">>)}, actors : {None}, type : {None}, genre : {None},
   page : {DefaultPage}, limit : {DefaultLimit}]
    \cup [title : {Some(<<"m">>)}, actors : {None},
          type : {Some(<<"M", "o", "v", "i", "e">>), Some(<<"b", "a", "d">>)},
          genre : {None}, page : {DefaultPage}, limit : {DefaultLimit}]
    \cup [title : {Some(<<"m">>)}, actors : {Some(<<"A", ",", " ", "b">>)}, type : {None},
          genre : {None}, page : {DefaultPage}, limit : {DefaultLimit}]

HttpUpstreams ==
  {u \in OmdbFew \X TmdbFew : Len(u[1].items) = 0 <=> Len(u[2].items) = 0}
    \cup {<<CHOOSE o \in OmdbFew : Len(o.items) = 2, TmdbDown>>}

\* one request to the search endpoint, from the middleware to the response
HttpSearch(client_ip, params, omdb_up, tmdb_up) ==
  \E m \in {rate_limit_middleware(requests, settings, client_ip, params, omdb_up, tmdb_up, now)} :
  /\ requests' = m.requests
  /\ cleanup_task' = start_cleanup(cleanup_task, now)
  /\ history' = Append(history, [client |-> client_ip, at |-> now, allowed |-> m.allowed])
  /\ cache' = IF m.response.constructed THEN m.response.cache ELSE cache
  /\ computed_at' = IF m.response.constructed
                    THEN (IF m.response.stored THEN (m.response.key :> now)
                          ELSE [k \in {} |-> 0])
                    ELSE computed_at
  /\ last' = [NoOp EXCEPT !.op = "http", !.client = client_ip, !.params = params,
                          !.q = m.response.q, !.status = m.response.status,
                          !.result = m.response.result, !.calls = m.response.calls,
                          !.hit = m.response.hit, !.stored = m.response.stored,
                          !.at = now, !.key = m.response.key,
                          !.omdb = m.response.omdb, !.tmdb = m.response.tmdb,
                          !.omdb_fails = OmdbFails(omdb_up), !.tmdb_fails = TmdbFails(tmdb_up),
                          !.omdb_page = m.response.omdb_page, !.tmdb_page = m.response.tmdb_page,
                          !.reached = m.response.reached]
  /\ session' = IF m.response.constructed THEN m.response.session ELSE session
  /\ open_sessions' = IF m.response.session = "open" THEN open_sessions + 1 ELSE open_sessions
  /\ ops' = ops + 1
  /\ UNCHANGED <<settings, now, input, serving, flight>>

(***************************************************************************)
(* SpecHttp: requests of two clients to the search endpoint, the sweep and *)
(* the clock.                                                              *)
(***************************************************************************)
InitHttp ==
  /\ InitCommon
  /\ settings \in {s \in Settings : SettingsValid(s) /\ s.CACHE_TTL = 60
                                      /\ s.CACHE_MAX_SIZE = DefaultCacheMaxSize
                                      /\ s.OMDB_API_KEY /= <<>> /\ s.TMDB_API_KEY /= <<>>}
  /\ input = NoInput

NextHttp ==
  \/ Tick
  \/ Cleanup
  \/ /\ ops < MaxRequests
     /\ \E c \in Clients, p \in HttpParams, u \in HttpUpstreams : HttpSearch(c, p, u[1], u[2])

SpecHttp == InitHttp /\ [][NextHttp]_vars

(***************************************************************************)
(* SpecLifecycle: the application from its first request to the stop of    *)
(* the server, with requests whose page and limit are in and out of range. *)
(***************************************************************************)
\* stop_cleanup: cancel the sweep task, await it and forget it
stop_cleanup(task) == None

\* MovieService.__aexit__: close the session the service holds
aexit(s) == IF s = "open" THEN "closed" ELSE s

\* the server stops.  app registers no shutdown handler and no lifespan
\* (main.py lines 11-31) and nothing calls stop_cleanup or __aexit__: no code
\* of the application runs, its objects stay as they are
Shutdown ==
  /\ serving
  /\ serving' = FALSE
  /\ UNCHANGED <<settings, now, requests, cleanup_task, cache, computed_at, last, ops, history,
                 input, session, open_sessions, flight>>

LifecycleParams ==
  {[title |-> Some(<<"m">>), actors |-> None, type |-> None, genre |-> None,
    page |-> pl[1], limit |-> pl[2]] :
      pl \in {<<DefaultPage, DefaultLimit>>, <<0, DefaultLimit>>, <<DefaultPage, MaxLimit + 1>>,
              <<DefaultPage, 0>>, <<2, MaxLimit>>}}

LifecycleUpstreams == {u \in HttpUpstreams : Len(u[1].items) = Len(u[2].items)}

LifecycleRequest ==
  /\ serving
  /\ ops < MaxRequests
  /\ \E c \in Clients, p \in LifecycleParams, u \in LifecycleUpstreams :
       HttpSearch(c, p, u[1], u[2])

NextLifecycle == Tick \/ Cleanup \/ LifecycleRequest \/ Shutdown

SpecLifecycle == InitHttp /\ [][NextLifecycle]_vars

(***************************************************************************)
(* Properties.                                                             *)
(***************************************************************************)
Absent(opt) == opt = None \/ opt = Some(<<>>)

AllFieldsEmpty(q) == Absent(q.title) /\ Absent(q.actors) /\ Absent(q.type) /\ Absent(q.genre)

Min(a, b) == IF a < b THEN a ELSE b

\* C1: a call of search_movies whose title, actors, type and genre are all
\* absent or empty raises the invalid-query error (HTTPException 400), makes
\* no provider call and leaves the cache as it was.
C1_EmptyQueryRejected ==
  [][(ops' = ops + 1 /\ last'.op = "search" /\ AllFieldsEmpty(last'.q))
       => /\ last'.raised = "HTTPException"
          /\ last'.status = 400
          /\ last'.result = None
          /\ last'.calls = 0
          /\ "providers" \notin last'.reached
          /\ cache' = cache
          /\ computed_at' = computed_at]_vars

C1_Witness ==
  /\ last.op = "search"
  /\ last.q.title = Some(<<>>)
  /\ last.q.actors = Some(<<>>)
  /\ last.status = 400
  /\ cache /= <<>>

\* C2: a request to the search endpoint that the limiter admits and that
\* carries no search parameter, or a type other than movie, series or
\* episode, is answered with status 400.
C2_BadRequestIs400 ==
  (/\ last.op = "http"
   /\ last.status /= 429
   /\ \/ AllFieldsEmpty(last.params)
      \/ /\ ~ Absent(last.params.type)
         /\ Lower(Val(last.params.type)) \notin MediaTypes)
    => last.status = 400

ChecksOf(h, c) == SelectSeq(h, LAMBDA e : e.client = c)

RECURSIVE WindowOpener(_, _)
\* the check that opened the window the i-th check of a client falls in: the
\* first check, and every check made 60 seconds or more after the opener
\* before it
WindowOpener(s, i) ==
  IF i = 1 THEN 1
  ELSE IF s[i].at - s[WindowOpener(s, i - 1)].at >= 60 THEN i
  ELSE WindowOpener(s, i - 1)

\* C3: of the checks of one client in one 60-second window, counted from the
\* check that opened it, exactly the first RATE_LIMIT_PER_MINUTE are admitted
\* and the others are rejected; a check made 60 seconds or more after the
\* opener is admitted and opens a window of count 1.
C3_WindowAdmitsLimit ==
  \A c \in Clients :
    \A i \in DOMAIN ChecksOf(history, c) :
      /\ ChecksOf(history, c)[i].allowed
           <=> i - WindowOpener(ChecksOf(history, c), i) + 1 <= settings.RATE_LIMIT_PER_MINUTE
      /\ ~ ChecksOf(history, c)[i].allowed
           => (last.op = "check" /\ last.client = c /\ i = Len(ChecksOf(history, c))
                 => last.status = 429)
      /\ (i = Len(ChecksOf(history, c)) /\ c \in DOMAIN requests)
           => /\ requests[c][2] = ChecksOf(history, c)[WindowOpener(ChecksOf(history, c), i)].at
              /\ requests[c][1] = Min(i - WindowOpener(ChecksOf(history, c), i) + 1,
                                      settings.RATE_LIMIT_PER_MINUTE)

C3_Witness ==
  /\ settings.RATE_LIMIT_PER_MINUTE = 2
  /\ \E c \in Clients : \E i \in DOMAIN ChecksOf(history, c) :
       /\ i > 1
       /\ ~ ChecksOf(history, c)[i - 1].allowed
       /\ ChecksOf(history, c)[i].allowed
       /\ c \in DOMAIN requests
       /\ requests[c] = <<1, ChecksOf(history, c)[i].at>>

\* C4: two consecutive identical requests to the search endpoint within the
\* cache TTL get the identical result, and the second makes no provider call.
C4_EndpointIdempotent ==
  [][(/\ ops' = ops + 1
      /\ last.op = "http" /\ last'.op = "http"
      /\ last.status = 200 /\ last'.status /= 429
      /\ last'.params = last.params
      /\ now - last.at < settings.CACHE_TTL)
       => /\ last'.status = 200
          /\ last'.result = last.result
          /\ last'.calls = 0]_vars

\* C5: on a cache miss, total is the sum of the lengths of the two lists the
\* adapters returned, and results is the slice [(page-1)*limit,
\* (page-1)*limit + limit) of the OMDB list followed by the TMDB list.
C5_MergeAndSlice ==
  (last.op = "search" /\ last.status = 200 /\ ~ last.hit)
    => /\ Val(last.result).total = Len(last.omdb) + Len(last.tmdb)
       /\ \A i \in DOMAIN last.omdb : last.omdb[i].source = "omdb"
       /\ \A i \in DOMAIN last.tmdb : last.tmdb[i].source = "tmdb"
       /\ \A i \in 1..last.q.limit :
            IF (last.q.page - 1) * last.q.limit + i <= Len(last.omdb \o last.tmdb)
            THEN /\ i \in DOMAIN Val(last.result).results
                 /\ Val(last.result).results[i]
                      = (last.omdb \o last.tmdb)[(last.q.page - 1) * last.q.limit + i]
            ELSE i \notin DOMAIN Val(last.result).results
       /\ Len(Val(last.result).results) <= last.q.limit

C5_Witness ==
  /\ last.op = "search" /\ last.status = 200 /\ ~ last.hit
  /\ Len(last.omdb) = 1
  /\ Len(last.tmdb) = 2
  /\ last.q.page = 2
  /\ last.q.limit = 1
  /\ Val(last.result).results = <<last.tmdb[1]>>

\* C6: every result search_movies returns, from the cache or freshly
\* aggregated, has at most limit records and carries the page and the limit
\* of the query it answers.
C6_ResultEchoesPaging ==
  (last.op = "search" /\ last.status = 200)
    => /\ last.result /= None
       /\ Len(Val(last.result).results) <= last.q.limit
       /\ Val(last.result).page = last.q.page
       /\ Val(last.result).limit = last.q.limit

C6_Witness ==
  /\ last.op = "search" /\ last.status = 200 /\ last.hit
  /\ last.q.page = 2
  /\ Len(Val(last.result).results) = last.q.limit

\* C7: with both providers configured, when every call to one provider
\* fails and the other works, search_movies returns normally, every record
\* of the result comes from the working provider, and total is the number of
\* records the working provider's adapter returned.
C7_OneProviderDown ==
  (/\ last.op = "search"
   /\ ~ AllFieldsEmpty(last.q)
   /\ last.q.page >= 1 /\ last.q.limit >= 1 /\ last.q.limit <= 50
   /\ settings.OMDB_API_KEY /= <<>> /\ settings.TMDB_API_KEY /= <<>>)
    => /\ (OmdbFails(input.omdb_up) /\ ~ TmdbFails(input.tmdb_up))
            => /\ last.status = 200
               /\ \A i \in DOMAIN Val(last.result).results :
                    Val(last.result).results[i].source = "tmdb"
               /\ Val(last.result).total = Len(last.tmdb)
       /\ (TmdbFails(input.tmdb_up) /\ ~ OmdbFails(input.omdb_up))
            => /\ last.status = 200
               /\ \A i \in DOMAIN Val(last.result).results :
                    Val(last.result).results[i].source = "omdb"
               /\ Val(last.result).total = Len(last.omdb)

C7_Witness ==
  /\ last.op = "search" /\ last.status = 200
  /\ settings.OMDB_API_KEY /= <<>> /\ settings.TMDB_API_KEY /= <<>>
  /\ input.omdb_up.status = "ok"
  /\ Len(input.omdb_up.items) = 2
  /\ OmdbFails(input.omdb_up)
  /\ ~ TmdbFails(input.tmdb_up)
  /\ Val(last.result).total = 2
  /\ Len(Val(last.result).results) = 2

\* C8: a result is served from the cache only while less than CACHE_TTL has
\* passed since it was computed; once CACHE_TTL has passed since then the
\* query goes to the providers again, however many hits came in between.
C8_ExpiryFixedFromCreation ==
  (last.op = "search" /\ last.prior /= None /\ last.raised = "")
    => /\ last.hit => last.at - Val(last.prior) < settings.CACHE_TTL
       /\ last.at - Val(last.prior) >= settings.CACHE_TTL
            => /\ ~ last.hit
               /\ last.calls >= 1
               /\ "providers" \in last.reached
               /\ computed_at[last.key] = last.at

C8_Witness ==
  /\ last.op = "search" /\ ops = 3
  /\ settings.CACHE_TTL = 60
  /\ last.prior = Some(0)
  /\ last.at = 60
  /\ ~ last.hit
  /\ last.calls >= 1

\* C9: a request the rate limiter rejects is answered with status 429 and
\* goes no further than the limiter: no route handler, no MovieService, no
\* cache and no provider call.
C9_RejectedNotProcessed ==
  [][(/\ ops' = ops + 1
      /\ last'.op = "http"
      /\ ~ history'[Len(history')].allowed)
       => /\ last'.status = 429
          /\ last'.result = None
          /\ last'.reached = {"limiter"}
          /\ last'.calls = 0
          /\ cache' = cache
          /\ computed_at' = computed_at]_vars

C9_Witness ==
  /\ last.op = "http"
  /\ last.status = 429
  /\ history /= <<>>
  /\ ~ history[Len(history)].allowed
  /\ cache /= <<>>

EmptyResult(q) == [results |-> <<>>, total |-> 0, page |-> q.page, limit |-> q.limit]

\* C10: when both providers fail for a valid query, search_movies returns
\* the empty result with total 0 and stores it in the cache; the same query
\* asked next, within the TTL, gets that result without a provider call.
C10_EmptyResultCached ==
  [][(ops' = ops + 1 /\ last'.op = "search")
       => /\ (/\ last'.omdb_fails /\ last'.tmdb_fails /\ ~ last'.hit
              /\ ~ AllFieldsEmpty(last'.q)
              /\ last'.q.page >= 1 /\ last'.q.limit >= 1 /\ last'.q.limit <= 50)
               => /\ last'.raised = ""
                  /\ last'.result = Some(EmptyResult(last'.q))
                  /\ \E i \in DOMAIN cache' :
                       /\ cache'[i].key = last'.key
                       /\ cache'[i].value = EmptyResult(last'.q)
                       /\ cache'[i].expires = now + settings.CACHE_TTL
          /\ (/\ last.op = "search" /\ last.raised = ""
              /\ last.omdb_fails /\ last.tmdb_fails /\ ~ last.hit
              /\ last'.q = last.q
              /\ now - last.at < settings.CACHE_TTL)
               => /\ last'.hit
                  /\ last'.result = Some(EmptyResult(last.q))
                  /\ last'.calls = 0]_vars

C10_Witness ==
  /\ last.op = "search" /\ last.hit
  /\ last.result = Some(EmptyResult(last.q))
  /\ last.calls = 0
  /\ last.at > 0

\* the query parameters of a request that asks for the query q (no actors)
ParamsOf(q) == [q EXCEPT !.actors = None]

\* C11: with both API keys empty, a call of search_movies with a search
\* parameter that misses the cache raises the server error (HTTPException
\* 500), makes no provider call, opens no session and stores nothing in the
\* cache; the route answers such a request with status 500.
C11_NoProviderIsServerError ==
  (/\ last.op = "search"
   /\ settings.OMDB_API_KEY = <<>> /\ settings.TMDB_API_KEY = <<>>
   /\ ~ AllFieldsEmpty(last.q)
   /\ ~ last.hit)
    => /\ last.raised = "HTTPException"
       /\ last.status = 500
       /\ last.result = None
       /\ last.calls = 0
       /\ "providers" \notin last.reached
       /\ ~ last.stored
       /\ cache = <<>>
       /\ session = "none"
       /\ (last.q.actors = None /\ QueryParamsValid(last.q))
            => route_search_movies(settings, ParamsOf(last.q), input.omdb_up, input.tmdb_up,
                                   last.at).status = 500

C11_Witness ==
  /\ last.op = "search"
  /\ settings.OMDB_API_KEY = <<>> /\ settings.TMDB_API_KEY = <<>>
  /\ last.q.title = Some(<<"m">>)
  /\ last.q.page = 2
  /\ input.omdb_up.status = "ok" /\ input.omdb_up.items /= <<>>
  /\ last.status = 500
  /\ last.calls = 0

\* C12: a request to the search endpoint that the limiter admits and whose
\* limit is outside [1, 50] or whose page is below 1 is answered with status
\* 400, and no provider call is made for it.
C12_BadPagingIs400 ==
  (/\ last.op = "http"
   /\ last.status /= 429
   /\ (last.params.limit < 1 \/ last.params.limit > 50 \/ last.params.page < 1))
    => /\ last.status = 400
       /\ last.calls = 0
       /\ "providers" \notin last.reached

\* C13: on a cache miss with both providers configured, the TMDB call is
\* started without waiting for the OMDB call to return: while the OMDB call
\* is in flight, the TMDB call is in flight too.
C13_ProvidersConcurrent ==
  (/\ flight.omdb = "in_flight"
   /\ settings.OMDB_API_KEY /= <<>> /\ settings.TMDB_API_KEY /= <<>>)
    => flight.tmdb = "in_flight"

\* the checks of client c that were admitted at time t or later
AdmittedSince(h, c, t) ==
  {i \in DOMAIN h : h[i].client = c /\ h[i].allowed /\ h[i].at >= t}

\* C14: whatever the order of the checks of the clients and of the sweeps,
\* the count stored for a client is the number of its checks admitted in its
\* current window and is at most the limit, and a client without a stored
\* window has made no check, or its latest window was opened 60 seconds ago
\* or more: no admitted check is lost.
C14_NoLostUpdate ==
  \A c \in Clients :
    IF c \in DOMAIN requests
    THEN /\ requests[c][1] = Cardinality(AdmittedSince(history, c, requests[c][2]))
         /\ requests[c][1] <= settings.RATE_LIMIT_PER_MINUTE
    ELSE \/ ChecksOf(history, c) = <<>>
         \/ now - ChecksOf(history, c)[WindowOpener(ChecksOf(history, c),
                                                    Len(ChecksOf(history, c)))].at >= 60

C14_Witness ==
  /\ settings.RATE_LIMIT_PER_MINUTE = 2
  /\ \E c \in Clients, d \in Clients :
       /\ c \in DOMAIN requests
       /\ requests[c][1] = 2
       /\ d \notin DOMAIN requests
       /\ ChecksOf(history, d) /= <<>>
       /\ history[Len(history)].client = c
       /\ history[Len(history)].at > requests[c][2]

\* C15: whatever page (>= 1) is asked for, every list call that search_movies
\* makes asks its provider for page 1, and the page asked for is applied by
\* the slice over the OMDB list followed by the TMDB list.
C15_ProvidersAskedPageOne ==
  (last.op = "search" /\ last.q.page >= 1 /\ last.calls > 0)
    => /\ settings.OMDB_API_KEY /= <<>> => last.omdb_page = 1
       /\ settings.TMDB_API_KEY /= <<>> => last.tmdb_page = 1
       /\ last.status = 200
            => Val(last.result).results
                 = Slice(last.omdb \o last.tmdb, (last.q.page - 1) * last.q.limit,
                         (last.q.page - 1) * last.q.limit + last.q.limit)

\* the records _search_tmdb_by_actors builds from the credits of one person
CreditRecords(p, genre) ==
  IF p.person = "ok" /\ p.credits = "ok" THEN TmdbCreditItems(p.cast, genre) ELSE <<>>

\* C19: in a search by actors and no title, the records built for an earlier
\* actor are part of what the TMDB adapter returns, also when the person
\* search or the credits call of a later actor fails.
C19_ByActorsKeepsEarlier ==
  (/\ last.op = "search" /\ last.status = 200 /\ ~ last.hit
   /\ settings.TMDB_API_KEY /= <<>>
   /\ ~ Truthy(last.q.title) /\ Truthy(last.q.actors)
   /\ Len(input.tmdb_up.people) = 2)
    => /\ Len(last.tmdb) >= Len(CreditRecords(input.tmdb_up.people[1], last.q.genre))
       /\ \A i \in DOMAIN CreditRecords(input.tmdb_up.people[1], last.q.genre) :
            last.tmdb[i] = CreditRecords(input.tmdb_up.people[1], last.q.genre)[i]

\* the entries of the cache that have not expired at time t
LiveEntries(c, t) == {i \in DOMAIN c : t < c[i].expires}

\* C16: the result cache never holds more entries than the CACHE_MAX_SIZE
\* setting allows.
C16_CacheWithinMaxSize ==
  Cardinality(LiveEntries(cache, now)) <= settings.CACHE_MAX_SIZE

\* C17: once the server has stopped, the sweep task that check_rate_limit
\* started has been cancelled and awaited: the limiter holds no task.
C17_SweepStoppedAtShutdown ==
  ~ serving => cleanup_task = None

\* C18: no session is open before a request has been admitted, and once
\* the server has stopped every session that get_session opened has been
\* closed.
C18_SessionsClosedAtShutdown ==
  /\ open_sessions > 0 => \E i \in DOMAIN history : history[i].allowed
  /\ ~ serving => (open_sessions = 0 /\ session /= "open")

\* the times the clock shows at which a window can be opened and be swept
\* before the clock stops
SweptStarts ==
  {t \in 0..MaxSweepTime : /\ \E d \in TickSteps : t % d = 0
                           /\ t + WindowSeconds + SweepSeconds <= MaxSweepTime}

\* C20: each sweep removes the windows that are 60 seconds old or older and
\* leaves the younger ones as they are; and once the sweep task exists, a
\* window does not stay: it is removed by a sweep, unless a later check of
\* its client has replaced it before.
C20_SweepReclaimsIdle ==
  /\ [][(history' = history /\ cleanup_task' /= cleanup_task)
          => \A c \in Clients :
               IF c \in DOMAIN requests /\ now - requests[c][2] < 60
               THEN c \in DOMAIN requests' /\ requests'[c] = requests[c]
               ELSE c \notin DOMAIN requests']_vars
  /\ \A c \in Clients : \A t \in SweptStarts :
       (c \in DOMAIN requests /\ requests[c][2] = t /\ cleanup_task /= None)
         ~> (c \notin DOMAIN requests \/ requests[c][2] /= t)

C20_Witness ==
  /\ cleanup_task /= None
  /\ Val(cleanup_task).due = now + 60
  /\ \E c \in Clients, d \in Clients :
       /\ c \notin DOMAIN requests
       /\ ChecksOf(history, c) /= <<>>
       /\ \A i \in DOMAIN history : history[i].client = c => history[i].at = 0
       /\ d \in DOMAIN requests
       /\ now - requests[d][2] < 60

\* the checks of a client, given as its history s, that were admitted in the
\* 60 seconds that start at time t
AdmittedInMinute(s, t) == {j \in DOMAIN s : s[j].allowed /\ t <= s[j].at /\ s[j].at < t + 60}

\* C21 as claimed: in every interval of 60 seconds, wherever it starts, at
\* most RATE_LIMIT_PER_MINUTE checks of one client are admitted.  (An
\* interval with the most admitted checks starts at the time of a check.)
C21_AtMostLimitPerMinute ==
  \A c \in Clients : \A i \in DOMAIN ChecksOf(history, c) :
    Cardinality(AdmittedInMinute(ChecksOf(history, c), ChecksOf(history, c)[i].at))
      <= settings.RATE_LIMIT_PER_MINUTE

\* C21 as amended: in the 60 seconds that start with the check that opens a
\* window of a client, at most RATE_LIMIT_PER_MINUTE checks of that client
\* are admitted, and in any interval of 60 seconds at most twice as many.
C21_AtMostLimitPerWindow ==
  \A c \in Clients : \A i \in DOMAIN ChecksOf(history, c) :
    /\ WindowOpener(ChecksOf(history, c), i) = i
         => Cardinality(AdmittedInMinute(ChecksOf(history, c), ChecksOf(history, c)[i].at))
              <= settings.RATE_LIMIT_PER_MINUTE
    /\ Cardinality(AdmittedInMinute(ChecksOf(history, c), ChecksOf(history, c)[i].at))
         <= 2 * settings.RATE_LIMIT_PER_MINUTE

C21_Witness ==
  /\ settings.RATE_LIMIT_PER_MINUTE = 2
  /\ \E c \in Clients : \E i \in DOMAIN ChecksOf(history, c) :
       /\ WindowOpener(ChecksOf(history, c), i) /= i
       /\ Cardinality(AdmittedInMinute(ChecksOf(history, c), ChecksOf(history, c)[i].at)) = 3

\* a requested actor is part of the actors text of the OMDB detail, and the
\* requested genre is part of its genre text, letter case apart
OmdbPasses(d, q) ==
  /\ (q.actors = None \/ Val(q.actors) = <<>>
        \/ \E i \in DOMAIN Val(q.actors) : IsSubstr(Lower(Val(q.actors)[i]), Lower(d.Actors)))
  /\ (q.genre = None \/ Val(q.genre) = <<>> \/ IsSubstr(Lower(Val(q.genre)), Lower(d.Genre)))

\* a requested actor is part of a name of the cast of the TMDB detail, and
\* the requested genre is one of its genre names, letter case apart
TmdbPasses(d, q) ==
  /\ (q.actors = None \/ Val(q.actors) = <<>>
        \/ \E i \in DOMAIN Val(q.actors) : \E j \in DOMAIN d.cast :
             IsSubstr(Lower(Val(q.actors)[i]), Lower(d.cast[j])))
  /\ (q.genre = None \/ Val(q.genre) = <<>>
        \/ \E j \in DOMAIN d.genres : Lower(d.genres[j]) = Lower(Val(q.genre)))

\* the candidates of an upstream answer whose detail call succeeded and
\* whose detail passes the filter, in upstream order
OmdbPassing(items, q) ==
  SelectSeq(items, LAMBDA it : it.status = "ok" /\ OmdbPasses(it.detail, q))

TmdbPassing(items, q) ==
  SelectSeq(items, LAMBDA it : it.status = "ok" /\ TmdbPasses(it.detail, q))

\* the adapter ran and its search call was answered with candidates
OmdbAnswered == settings.OMDB_API_KEY /= <<>> /\ input.omdb_up.status = "ok"

TmdbAnswered == settings.TMDB_API_KEY /= <<>> /\ input.tmdb_up.status = "ok"

\* C22 as claimed: for a title search each adapter returns, in upstream
\* order, one record for each candidate whose detail call succeeded and
\* whose detail passes the actor and genre filter, and drops no other.
C22_OnlyFetchAndFilterDrop ==
  (last.op = "search" /\ last.status = 200 /\ ~ last.hit /\ Truthy(last.q.title))
    => /\ OmdbAnswered =>
            /\ Len(last.omdb) = Len(OmdbPassing(input.omdb_up.items, last.q))
            /\ \A i \in DOMAIN last.omdb :
                 last.omdb[i] = OmdbMovie(OmdbPassing(input.omdb_up.items, last.q)[i].detail)
       /\ TmdbAnswered =>
            /\ Len(last.tmdb) = Len(TmdbPassing(input.tmdb_up.items, last.q))
            /\ \A i \in DOMAIN last.tmdb :
                 last.tmdb[i] = TmdbMovie(TmdbPassing(input.tmdb_up.items, last.q)[i].detail)

\* the passing candidates from whose detail a Movie can be built
OmdbBuilt(items, q) ==
  SelectSeq(OmdbPassing(items, q), LAMBDA it : MovieValid(OmdbMovie(it.detail)))

TmdbBuilt(items, q) ==
  SelectSeq(TmdbPassing(items, q), LAMBDA it : MovieValid(TmdbMovie(it.detail)))

\* C22 as amended: for a title search each adapter returns, in upstream
\* order, one record for each candidate whose detail call succeeded, whose
\* detail passes the actor and genre filter and from whose detail a valid
\* Movie can be built; it drops a candidate for no other reason.
C22_FetchFilterAndValidityDrop ==
  (last.op = "search" /\ last.status = 200 /\ ~ last.hit /\ Truthy(last.q.title))
    => /\ OmdbAnswered =>
            /\ Len(last.omdb) = Len(OmdbBuilt(input.omdb_up.items, last.q))
            /\ \A i \in DOMAIN last.omdb :
                 last.omdb[i] = OmdbMovie(OmdbBuilt(input.omdb_up.items, last.q)[i].detail)
       /\ TmdbAnswered =>
            /\ Len(last.tmdb) = Len(TmdbBuilt(input.tmdb_up.items, last.q))
            /\ \A i \in DOMAIN last.tmdb :
                 last.tmdb[i] = TmdbMovie(TmdbBuilt(input.tmdb_up.items, last.q)[i].detail)

C22_Witness ==
  /\ last.op = "search" /\ last.status = 200
  /\ last.q.actors /= None /\ last.q.genre /= None
  /\ Len(input.omdb_up.items) = 2
  /\ input.omdb_up.items[1].detail = OmdbNoPoster
  /\ input.omdb_up.items[2] = [status |-> "ok", detail |-> OmdbHit]
  /\ Len(last.omdb) = 1
  /\ Len(input.tmdb_up.items) = 2
  /\ input.tmdb_up.items[1] = [status |-> "ok", detail |-> TmdbHit]
  /\ input.tmdb_up.items[2].detail = TmdbUndated
  /\ Len(last.tmdb) = 1

\* C23: a cache hit returns a result computed for a query equal in every
\* field to the current one: a search answered from the cache right after a
\* search under the same cache key is a search for the same query, since
\* two queries that differ in a field never share a cache key.
C23_HitOnlyForEqualQuery ==
  [][(/\ ops' = ops + 1
      /\ last.op = "search" /\ last.status = 200
      /\ last'.op = "search" /\ last'.hit
      /\ last'.key = last.key)
       => last'.q = last.q]_vars

RECURSIVE Unswept(_, _, _)
\* the window map of a limiter that is never swept, after the first n
\* checks of h
Unswept(h, st, n) ==
  IF n = 0 THEN << >>
  ELSE check_rate_limit(Unswept(h, st, n - 1), st, h[n].client, h[n].at).requests

\* C24: the sweep is transparent to admission: every check made so far,
\* with the sweep running in between at any time, was answered as a limiter
\* that is never swept answers it after the same checks.
C24_SweepTransparent ==
  \A i \in DOMAIN history :
    history[i].allowed
      = check_rate_limit(Unswept(history, settings, i - 1), settings,
                         history[i].client, history[i].at).allowed

C24_Witness ==
  /\ settings.RATE_LIMIT_PER_MINUTE = 1
  /\ cleanup_task /= None
  /\ Val(cleanup_task).due = 120
  /\ \E c \in Clients :
       /\ Len(ChecksOf(history, c)) = 4
       /\ [i \in 1..4 |-> ChecksOf(history, c)[i].at] = <<0, 0, 90, 90>>
       /\ [i \in 1..4 |-> ChecksOf(history, c)[i].allowed] = <<TRUE, FALSE, TRUE, FALSE>>
       /\ requests = (c :> <<1, 90>>)

====
